---- MODULE Spec2Model ----
(***************************************************************************)
(* A model of build2.py (ProtoCI): the build-order planner (build_order),  *)
(* the sequential build loop (make_deps / make_pkg), the group splitter    *)
(* (split_graph / coalesce) and the resource-monitoring process wrapper    *)
(* (PopenWrapper._execute).                                                *)
(*                                                                         *)
(* Five specifications share the module's variables; each drives one part  *)
(* of the program and leaves the other parts' variables at their initial   *)
(* values:                                                                 *)
(*   SpecPlan    build_order, then make_deps' metadata filter              *)
(*   SpecSplit   split_graph and coalesce                                  *)
(*   SpecRun     the build loop of make_deps                               *)
(*   SpecObserve PopenWrapper._execute                                     *)
(*   SpecDirty   git_changed_files, construct_graph and dirty              *)
(*                                                                         *)
(* Python's None is the empty tuple <<>> and a value v is <<v>>.           *)
(***************************************************************************)
EXTENDS Integers, Sequences, FiniteSets, TLC

VARIABLES
    pc,             \* position of the running operation
    \* ---- the dependency graph and build_order
    graph,          \* edges package -> dependency of the input graph
    graph0,         \* the input graph's edges when build_order was called
    meta,           \* the nodes that carry recipe metadata
    packages,       \* build_order's packages: <<>> (None) or <<set of names>>
    level,          \* build_order's level
    tmp_nodes,      \* nodes of tmp_global
    tmp_edges,      \* edges of tmp_global
    seen, explored, fringe,   \* state of networkx's topological_sort
    order,          \* the order list being produced / returned
    \* ---- split_graph and coalesce
    toposort,       \* split_graph's toposort list
    hi_level_builds,\* the items of the dict, in dict order: <<key, closure>>
    targetnum,
    sortedItems,    \* sorted(counts, key=count), as items
    ci,             \* index of coalesce's for loop
    group,          \* coalesce's group: a list of lists
    coalesced,      \* coalesce's result: a function key -> list
    \* ---- make_deps' build loop
    dry, idx, failed, build_times, invoked, ret,
    \* ---- PopenWrapper._execute
    initial_usage, self_disk, self_rss, child, descendants, samples, raised,
    \* ---- construct_graph and dirty
    recipes,        \* the recipe directories that parse: name -> build deps
    git_paths,      \* the paths git diff-tree reports, in its output order
    changed_recipes,\* construct_graph's changed_recipes
    gnodes,         \* the nodes of the graph construct_graph returns
    node_dirty,     \* the dirty attribute of the nodes that have one
    dirty_result    \* what dirty(graph) returned: <<>> (not yet) or <<set>>

gvars == <<graph, graph0, meta, packages, level, tmp_nodes, tmp_edges,
           seen, explored, fringe, order>>
svars == <<toposort, hi_level_builds, targetnum, sortedItems, ci, group,
           coalesced>>
rvars == <<dry, idx, failed, build_times, invoked, ret>>
ovars == <<initial_usage, self_disk, self_rss, child, descendants, samples,
           raised>>
dvars == <<recipes, git_paths, changed_recipes, gnodes, node_dirty,
           dirty_result>>
vars == <<pc, gvars, svars, rvars, ovars, dvars>>

(***************************************************************************)
(* Bounds                                                                  *)
(***************************************************************************)
Nodes == {"a", "b", "c"}
MaxLevel == 2
MaxTarget == 4
MaxDisk == 2
MaxPolls == 3

None == <<>>

(***************************************************************************)
(* Helpers on sets and sequences                                           *)
(***************************************************************************)
Range(s) == {s[i] : i \in DOMAIN s}

Perms(S) == {s \in [1..Cardinality(S) -> S] :
                \A i, j \in 1..Cardinality(S) : i # j => s[i] # s[j]}

IndexOf(s, x) == CHOOSE i \in DOMAIN s : s[i] = x

\* a recipe may even name itself as a build requirement
PossibleEdges == Nodes \X Nodes

\* graph.successors(p), over a set of nodes
Successors(E, S) == {e[2] : e \in {f \in E : f[1] \in S}}

\* graph.edges_iter(p), over a set of nodes
EdgesFrom(E, S) == {e \in E : e[1] \in S}

\* graph.subgraph(nbunch): the induced edges
InducedEdges(E, S) == {e \in E : e[1] \in S /\ e[2] \in S}

(***************************************************************************)
(* build_order, lines 231-252: the temporary graph                         *)
(***************************************************************************)
\* A frontier that is never advanced: every round expands the targets again.
RECURSIVE ExpandStuck(_, _, _, _, _)
ExpandStuck(E, nodes, edges, currlevel, lvl) ==
    IF lvl = 0 THEN <<nodes, edges>>
    ELSE ExpandStuck(E, nodes \cup currlevel \cup Successors(E, currlevel),
                     edges \cup EdgesFrom(E, currlevel), currlevel, lvl - 1)

\* The while loop of lines 242-248: each round adds the edges leaving the
\* current frontier (add_edges_from adds their endpoints as nodes) and moves
\* the frontier to the successors.
RECURSIVE Expand(_, _, _, _, _)
Expand(E, nodes, edges, currlevel, lvl) ==
    IF lvl = 0 THEN <<nodes, edges>>
    ELSE LET newcurr == Successors(E, currlevel)
         IN  Expand(E, nodes \cup newcurr, edges \cup EdgesFrom(E, currlevel),
                    newcurr, lvl - 1)

\* <<nodes, edges>> of tmp_global
TmpGlobal(E, pk, lvl) ==
    IF pk = None THEN <<Nodes, InducedEdges(E, Nodes)>>
    ELSE Expand(E, pk[1], InducedEdges(E, pk[1]), pk[1], lvl)

InitOther(parts) ==
    /\ "g" \notin parts =>
          /\ graph = {} /\ graph0 = {} /\ meta = {} /\ packages = None
          /\ level = 0 /\ tmp_nodes = {} /\ tmp_edges = {}
          /\ seen = {} /\ explored = {} /\ fringe = <<>> /\ order = <<>>
    /\ "s" \notin parts =>
          /\ toposort = <<>> /\ hi_level_builds = <<>> /\ targetnum = 1
          /\ sortedItems = <<>> /\ ci = 0 /\ group = <<>> /\ coalesced = <<>>
    /\ "r" \notin parts =>
          /\ dry = FALSE /\ idx = 0 /\ failed = {} /\ build_times = <<>>
          /\ invoked = {} /\ ret = None
    /\ "o" \notin parts =>
          /\ initial_usage = 0 /\ self_disk = None /\ self_rss = None
          /\ child = "none" /\ descendants = {} /\ samples = <<>>
          /\ raised = "none"
    /\ "d" \notin parts =>
          /\ recipes = <<>> /\ git_paths = <<>> /\ changed_recipes = {}
          /\ gnodes = {} /\ node_dirty = <<>> /\ dirty_result = None

\* The graphs construct_graph can build: every edge leaves a node that has a
\* recipe (add_node with meta precedes its add_edge calls).
InitGraph ==
    /\ graph \in SUBSET PossibleEdges
    /\ graph0 = graph
    /\ meta \in SUBSET Nodes
    /\ {e[1] : e \in graph} \subseteq meta
    /\ tmp_nodes = {} /\ tmp_edges = {}
    /\ seen = {} /\ explored = {} /\ fringe = <<>> /\ order = <<>>

InitPlan ==
    /\ pc = "build_order"
    /\ InitGraph
    /\ packages \in {None} \cup {<<S>> : S \in SUBSET Nodes}
    /\ level \in 0..MaxLevel
    /\ InitOther({"g"})

\* build_order, lines 231-252
build_order ==
    /\ pc = "build_order"
    /\ LET t == TmpGlobal(graph, packages, level)
       IN  /\ tmp_nodes' = t[1]
           /\ tmp_edges' = t[2]
    /\ pc' = "topo"
    /\ UNCHANGED <<graph, graph0, meta, packages, level, seen, explored,
                   fringe, order, svars, dvars, rvars, ovars>>

(***************************************************************************)
(* networkx 1.x topological_sort(G, reverse=...): a depth-first search     *)
(* over G's nodes in dict order, the successors of a node in dict order.   *)
(* Dict order is not fixed by the program, so every order is possible.     *)
(***************************************************************************)
\* for v in nbunch: if v in explored: continue; fringe = [v]
TopoRoot ==
    /\ pc \in {"topo", "split_topo"}
    /\ fringe = <<>>
    /\ \E v \in tmp_nodes \ explored : fringe' = <<v>>
    /\ UNCHANGED <<pc, graph, graph0, meta, packages, level, tmp_nodes,
                   tmp_edges, seen, explored, order, svars, dvars, rvars, ovars>>

\* one round of "while fringe"
TopoVisit ==
    /\ pc \in {"topo", "split_topo"}
    /\ fringe # <<>>
    /\ LET w == fringe[Len(fringe)]
           pop == SubSeq(fringe, 1, Len(fringe) - 1)
           todo == Successors(tmp_edges, {w}) \ explored
       IN  IF w \in explored
           THEN /\ fringe' = pop
                /\ UNCHANGED <<pc, seen, explored, order>>
           ELSE IF todo \cap (seen \cup {w}) # {}
           THEN \* raise nx.NetworkXUnfeasible("Graph contains a cycle.")
                /\ pc' = "cycle_error"
                /\ seen' = seen \cup {w}
                /\ UNCHANGED <<fringe, explored, order>>
           ELSE IF todo # {}
           THEN /\ \E new_nodes \in Perms(todo) : fringe' = fringe \o new_nodes
                /\ seen' = seen \cup {w}
                /\ UNCHANGED <<pc, explored, order>>
           ELSE /\ explored' = explored \cup {w}
                /\ order' = Append(order, w)
                /\ fringe' = pop
                /\ seen' = seen \cup {w}
                /\ UNCHANGED pc
    /\ UNCHANGED <<graph, graph0, meta, packages, level, tmp_nodes, tmp_edges,
                   svars, dvars, rvars, ovars>>

\* build_order, line 254: return tmp_global, topological_sort(.., reverse=True)
\* (reverse=True returns the post-order list as it is)
build_order_return ==
    /\ pc = "topo"
    /\ fringe = <<>>
    /\ explored = tmp_nodes
    /\ pc' = "planned"
    /\ UNCHANGED <<gvars, svars, dvars, rvars, ovars>>

\* make_deps, line 261: drop the packages that have no recipe
FilterMeta(o, m) == SelectSeq(o, LAMBDA p : p \in m)

make_deps_filter ==
    /\ pc = "planned"
    /\ order' = FilterMeta(order, meta)
    /\ pc' = "filtered"
    /\ UNCHANGED <<graph, graph0, meta, packages, level, tmp_nodes, tmp_edges,
                   seen, explored, fringe, svars, dvars, rvars, ovars>>

NextPlan ==
    \/ build_order
    \/ TopoRoot
    \/ TopoVisit
    \/ build_order_return
    \/ make_deps_filter

SpecPlan == InitPlan /\ [][NextPlan]_vars

(***************************************************************************)
(* split_graph and coalesce                                                *)
(***************************************************************************)
Reverse(s) == [i \in 1..Len(s) |-> s[Len(s) + 1 - i]]

RECURSIVE SumLen(_)
SumLen(ls) == IF ls = <<>> THEN 0 ELSE Len(ls[1]) + SumLen(Tail(ls))

\* successors_iter(g, s, set()): every node reachable from s along one or
\* more edges
RECURSIVE ClosureFrom(_, _)
ClosureFrom(E, S) ==
    LET more == S \cup Successors(E, S)
    IN  IF more = S THEN S ELSE ClosureFrom(E, more)

successors_iter(E, s) == ClosureFrom(E, Successors(E, {s}))

\* lines 215-217: the closure, by descending index in toposort
SuccOrder(topo, succ) ==
    SelectSeq(Reverse(topo), LAMBDA n : n \in succ)

\* lines 208-217: the representatives in the order the loop meets them, each
\* with its closure list; covered is packages_covered's key set
RECURSIVE HiLevelFrom(_, _, _, _)
HiLevelFrom(E, topo, i, covered) ==
    IF i > Len(topo) THEN <<>>
    ELSE IF topo[i] \in covered THEN HiLevelFrom(E, topo, i + 1, covered)
    ELSE LET succ == successors_iter(E, topo[i])
         IN  <<<<topo[i], SuccOrder(topo, succ)>>>>
             \o HiLevelFrom(E, topo, i + 1, covered \cup succ \cup {topo[i]})

\* the items of a dict in some dict order
DictOrders(items) ==
    {[i \in 1..Len(items) |-> items[p[i]]] : p \in Perms(1..Len(items))}

\* sorted(counts, key=lambda x: x[1]): a stable sort by closure length
RECURSIVE SortedFrom(_, _)
SortedFrom(items, n) ==
    IF \A i \in DOMAIN items : Len(items[i][2]) < n THEN <<>>
    ELSE SelectSeq(items, LAMBDA it : Len(it[2]) = n) \o SortedFrom(items, n + 1)

SortedByCount(items) == SortedFrom(items, 0)

\* A merge that forgets to leave the key out of its own list.
MergeKeepsKey(lst, g, key) ==
    lst \o SelectSeq(g, LAMBDA gi : gi \notin Range(lst))

\* lines 194 and 198:
\* coalesced[key] += [gi for gi in g if gi not in coalesced[key] and gi != key]
Merge(lst, g, key) ==
    lst \o SelectSeq(g, LAMBDA gi : gi \notin Range(lst) /\ gi # key)

\* lines 191-194 and 197-198: the for loop over group. "g == key" compares a
\* list with a string and never holds, so no group is skipped.
RECURSIVE MergeAll(_, _, _)
MergeAll(lst, grp, key) ==
    IF grp = <<>> THEN lst
    ELSE MergeAll(Merge(lst, grp[1], key), Tail(grp), key)

\* coalesced after the loop over group: the defaultdict creates coalesced[key]
Flush(co, grp, key) ==
    [k \in DOMAIN co \cup {key} |->
        IF k = key
        THEN MergeAll(IF key \in DOMAIN co THEN co[key] ELSE <<>>, grp, key)
        ELSE co[k]]

\* the closure lists a key may carry: duplicate-free, without the key
ClosureLists(names, key) ==
    UNION {{s \in [1..n -> names \ {key}] :
               \A i, j \in 1..n : i # j => s[i] # s[j]} :
           n \in 0..Cardinality(names \ {key})}

\* every closures mapping over Nodes, in every dict order
DirectInputs ==
    UNION {{items \in [1..Len(ks) -> UNION {{<<k, c>> : c \in ClosureLists(Nodes, k)} : k \in Nodes}] :
               \A i \in 1..Len(ks) : items[i][1] = ks[i]} :
           ks \in UNION {Perms(K) : K \in SUBSET Nodes}}

\* coalesce({"A": ["a1","a2"], "B": ["b1"]}, 5)
ScenarioItems == <<<<"A", <<"a1", "a2">>>>, <<"B", <<"b1">>>>>>

InitCoalesce ==
    /\ toposort = <<>>
    /\ sortedItems = <<>> /\ ci = 0 /\ group = <<>> /\ coalesced = <<>>

InitSplit ==
    /\ InitOther({"g", "s"})
    /\ InitCoalesce
    /\ \/ /\ pc = "split_graph"
          /\ graph \in SUBSET PossibleEdges
          /\ graph0 = graph /\ meta = {e[1] : e \in graph}
          /\ packages = None /\ level = 0
          /\ tmp_nodes = {} /\ tmp_edges = {}
          /\ seen = {} /\ explored = {} /\ fringe = <<>> /\ order = <<>>
          /\ hi_level_builds = <<>>
          /\ targetnum \in 1..MaxTarget
       \/ /\ pc = "coalesce"
          /\ graph = {} /\ graph0 = {} /\ meta = {} /\ packages = None
          /\ level = 0 /\ tmp_nodes = {} /\ tmp_edges = {}
          /\ seen = {} /\ explored = {} /\ fringe = <<>> /\ order = <<>>
          /\ \/ /\ hi_level_builds \in DirectInputs
                /\ targetnum \in 1..MaxTarget
             \/ /\ hi_level_builds \in DictOrders(ScenarioItems)
                /\ targetnum = 5

\* split_graph, line 202: g = g.copy()
split_graph ==
    /\ pc = "split_graph"
    /\ tmp_nodes' = Nodes
    /\ tmp_edges' = graph
    /\ pc' = "split_topo"
    /\ UNCHANGED <<graph, graph0, meta, packages, level, seen, explored,
                   fringe, order, svars, dvars, rvars, ovars>>

\* split_graph, lines 203-218: toposort is the reversed post-order
\* (reverse=False); then the representatives and their closures
split_graph_closures ==
    /\ pc = "split_topo"
    /\ fringe = <<>>
    /\ explored = tmp_nodes
    /\ toposort' = Reverse(order)
    /\ hi_level_builds' \in DictOrders(HiLevelFrom(tmp_edges, Reverse(order), 1, {}))
    /\ pc' = "coalesce"
    /\ UNCHANGED <<gvars, dvars, targetnum, sortedItems, ci, group, coalesced,
                   rvars, ovars>>

\* coalesce, lines 185-188
coalesce ==
    /\ pc = "coalesce"
    /\ sortedItems' = SortedByCount(hi_level_builds)
    /\ ci' = 1
    /\ group' = <<>>
    /\ coalesced' = <<>>
    /\ pc' = "coalesce_loop"
    /\ UNCHANGED <<gvars, dvars, toposort, hi_level_builds, targetnum, rvars, ovars>>

\* coalesce, lines 188-195: one round of the for loop
coalesce_step ==
    /\ pc = "coalesce_loop"
    /\ ci <= Len(sortedItems)
    /\ LET key == sortedItems[ci][1]
           grp == Append(group, sortedItems[ci][2] \o <<key>>)
       IN  IF SumLen(grp) >= targetnum
           THEN /\ coalesced' = Flush(coalesced, grp, key)
                /\ group' = <<>>
           ELSE /\ group' = grp
                /\ UNCHANGED coalesced
    /\ ci' = ci + 1
    /\ UNCHANGED <<pc, gvars, dvars, toposort, hi_level_builds, targetnum,
                   sortedItems, rvars, ovars>>

\* coalesce, lines 196-199: the rest of the batch goes under the last key
coalesce_return ==
    /\ pc = "coalesce_loop"
    /\ ci > Len(sortedItems)
    /\ IF group # <<>>
       THEN coalesced' = Flush(coalesced, group, sortedItems[Len(sortedItems)][1])
       ELSE UNCHANGED coalesced
    /\ group' = group
    /\ pc' = "coalesced"
    /\ UNCHANGED <<gvars, dvars, toposort, hi_level_builds, targetnum, sortedItems,
                   ci, rvars, ovars>>

NextSplit ==
    \/ split_graph
    \/ TopoRoot
    \/ TopoVisit
    \/ split_graph_closures
    \/ coalesce
    \/ coalesce_step
    \/ coalesce_return

SpecSplit == InitSplit /\ [][NextSplit]_vars

(***************************************************************************)
(* make_deps (lines 264-285) and make_pkg (lines 288-301)                  *)
(***************************************************************************)
\* the exit statuses of the external build tool: success, an error exit,
\* killed by a signal
ExitStatuses == {0, 1, -9}

\* What a call of make_pkg can do, given how the build tool ends. In a dry
\* run it returns None. Otherwise it returns the PopenWrapper, whatever the
\* exit status: PopenWrapper only records the process and raises nothing for
\* a non-zero exit, so CalledProcessError is never raised and the handlers of
\* lines 281 and 298 are never entered.
make_pkg(isDry, status) ==
    IF isDry THEN [raises |-> "none", value |-> None]
    ELSE [raises |-> "none", value |-> <<status>>]

InitRun ==
    /\ pc = "make_deps"
    /\ InitOther({"g", "r"})
    /\ graph = {} /\ graph0 = {} /\ packages = None /\ level = 0
    /\ tmp_nodes = {} /\ tmp_edges = {}
    /\ seen = {} /\ explored = {} /\ fringe = <<>>
    \* the filtered order of line 261: duplicate-free, every member has meta
    /\ order \in UNION {Perms(S) : S \in SUBSET Nodes}
    /\ meta = Range(order)
    /\ dry \in BOOLEAN
    /\ idx = 1
    /\ failed = {}
    /\ build_times = [p \in Range(order) |-> None]
    /\ invoked = {}
    /\ ret = None

\* one round of the for loop, lines 266-283
make_deps_build ==
    /\ pc = "make_deps"
    /\ idx <= Len(order)
    /\ LET pkg == order[idx]
       IN  IF \E p \in Range(order) : p \in failed
           THEN \* lines 270-276
                /\ failed' = failed \cup {pkg}
                /\ UNCHANGED <<build_times, invoked>>
           ELSE \E status \in ExitStatuses :
                  LET r == make_pkg(dry, status)
                  IN  /\ invoked' = IF dry THEN invoked ELSE invoked \cup {pkg}
                      /\ IF r.raises = "CalledProcessError"
                         THEN \* lines 281-283
                              /\ failed' = failed \cup {pkg}
                              /\ UNCHANGED build_times
                         ELSE \* line 278
                              /\ build_times' = [build_times EXCEPT ![pkg] = r.value]
                              /\ UNCHANGED failed
    /\ idx' = idx + 1
    /\ UNCHANGED <<pc, gvars, svars, dvars, dry, ret, ovars>>

\* lines 279-280: KeyboardInterrupt inside the try block of the round
make_deps_interrupt ==
    /\ pc = "make_deps"
    /\ idx <= Len(order)
    /\ invoked' = IF dry \/ failed # {} THEN invoked
                  ELSE invoked \cup {order[idx]}
    /\ ret' = [shape |-> "set", failed |-> failed]
    /\ pc' = "returned"
    /\ UNCHANGED <<gvars, svars, dvars, dry, idx, failed, build_times, ovars>>

\* line 285
make_deps_return ==
    /\ pc = "make_deps"
    /\ idx > Len(order)
    /\ ret' = [shape |-> "tuple",
               succeeded |-> Range(order) \ failed,
               failed |-> failed,
               build_times |-> build_times]
    /\ pc' = "returned"
    /\ UNCHANGED <<gvars, svars, dvars, dry, idx, failed, build_times, invoked, ovars>>

NextRun ==
    \/ make_deps_build
    \/ make_deps_interrupt
    \/ make_deps_return

SpecRun == InitRun /\ [][NextRun]_vars

(***************************************************************************)
(* PopenWrapper._execute (lines 34-72)                                     *)
(***************************************************************************)
\* the processes the build tool may spawn below itself
Desc == {"d1", "d2"}

\* Python 2's max(x, cur), with cur possibly None: None sorts below every
\* number
PyMax(x, cur) == IF cur = None THEN <<x>> ELSE <<IF x > cur[1] THEN x ELSE cur[1]>>

\* _popen.is_running(): true of a live process and of one that has exited and
\* has not been reaped
is_running(c) == c \in {"running", "zombie"}

InitObserve ==
    /\ pc = "execute"
    /\ InitOther({"o"})
    /\ initial_usage \in 0..MaxDisk
    /\ self_disk = None
    /\ self_rss = None
    /\ child = "none"
    /\ descendants = {}
    /\ samples = <<>>
    /\ raised = "none"

\* lines 36-44: initial_usage is read, the child is spawned
execute_spawn ==
    /\ pc = "execute"
    /\ child' = "running"
    /\ pc' = "loop"
    /\ UNCHANGED <<gvars, svars, dvars, rvars, initial_usage, self_disk, self_rss,
                   descendants, samples, raised>>

\* one round of the while loop, lines 46-69. The memory query of line 52
\* either answers or raises AccessDenied; only when it answers is the disk
\* read (line 60). samples lists the disk usage each read returned.
execute_poll ==
    /\ pc = "loop"
    /\ is_running(child)
    /\ Len(samples) < MaxPolls
    /\ \E denied \in BOOLEAN, rss \in 0..1, used \in 0..MaxDisk :
          IF denied
          THEN \* lines 63-65
               /\ child' = IF child = "zombie" THEN "reaped" ELSE child
               /\ UNCHANGED <<self_rss, self_disk, samples>>
          ELSE \* lines 52-61
               /\ self_rss' = PyMax(rss, self_rss)
               /\ self_disk' = PyMax(initial_usage - used, self_disk)
               /\ samples' = Append(samples, used)
               /\ UNCHANGED child
    /\ UNCHANGED <<pc, gvars, svars, dvars, rvars, initial_usage, descendants, raised>>

\* line 46 finds the child gone: _execute returns
execute_return ==
    /\ pc = "loop"
    /\ ~is_running(child)
    /\ pc' = "observed"
    /\ UNCHANGED <<gvars, svars, dvars, rvars, ovars>>

\* lines 70-72: KeyboardInterrupt in the loop: _popen.kill() signals the
\* child process alone, then the interrupt is raised again
execute_interrupt ==
    /\ pc = "loop"
    /\ child' = IF child = "running" THEN "killed" ELSE child
    /\ raised' = "KeyboardInterrupt"
    /\ pc' = "raised"
    /\ UNCHANGED <<gvars, svars, dvars, rvars, initial_usage, self_disk, self_rss,
                   descendants, samples>>

\* the environment: the build tool starts a process below itself
tool_forks ==
    /\ pc = "loop"
    /\ child = "running"
    /\ \E d \in Desc \ descendants : descendants' = descendants \cup {d}
    /\ UNCHANGED <<pc, gvars, svars, dvars, rvars, initial_usage, self_disk, self_rss,
                   child, samples, raised>>

\* the environment: a process below the build tool ends
descendant_exits ==
    /\ pc \in {"loop", "raised", "observed"}
    /\ \E d \in descendants : descendants' = descendants \ {d}
    /\ UNCHANGED <<pc, gvars, svars, dvars, rvars, initial_usage, self_disk, self_rss,
                   child, samples, raised>>

\* the environment: the build tool exits; it stays a zombie until waited for
tool_exits ==
    /\ pc = "loop"
    /\ child = "running"
    /\ child' = "zombie"
    /\ UNCHANGED <<pc, gvars, svars, dvars, rvars, initial_usage, self_disk, self_rss,
                   descendants, samples, raised>>

NextObserve ==
    \/ execute_spawn
    \/ execute_poll
    \/ execute_return
    \/ execute_interrupt
    \/ tool_forks
    \/ descendant_exits
    \/ tool_exits

SpecObserve == InitObserve /\ [][NextObserve]_vars

(***************************************************************************)
(* Properties of PopenWrapper._execute                                     *)
(***************************************************************************)
\* the disk space consumed between the start and the i-th disk read
Consumed(i) == samples[i] - initial_usage

\* C8: after the polls made so far self.disk is the largest disk consumption
\* (used space at the poll minus the initial used space) any of them saw; it
\* is positive when some poll saw disk consumed; it never decreases.
C8_PeakDiskDelta ==
    /\ [](samples # <<>> =>
            /\ self_disk # None
            /\ \A i \in DOMAIN samples : self_disk[1] >= Consumed(i)
            /\ \E i \in DOMAIN samples : self_disk[1] = Consumed(i)
            /\ (\E i \in DOMAIN samples : Consumed(i) > 0) => self_disk[1] > 0)
    /\ [][(self_disk # None) => (self_disk' # None /\ self_disk'[1] >= self_disk[1])]_vars

\* C9: when _execute ends on a cancellation the child and every live
\* descendant of it have been terminated, the cancellation is raised to the
\* caller and no observation is returned.
C9_InterruptKillsTree ==
    raised = "KeyboardInterrupt" =>
        /\ pc = "raised"
        /\ ~(child = "running")
        /\ descendants = {}

(***************************************************************************)
(* Properties of make_deps                                                 *)
(***************************************************************************)
\* the build tool ran for p and ended with a non-zero or abnormal status
ToolFailed(p) == p \in invoked /\ build_times[p] # None /\ build_times[p] # <<0>>

\* C3: once the failed set is non-empty every later package of the order is
\* added to it without the build tool being invoked; for an order whose first
\* package fails, the run ends with every package failed and none succeeded;
\* and the failed set never loses a member.
C3_AutofailAfterFailure ==
    /\ []((pc = "returned" /\ idx > Len(order) /\ Len(order) > 0
              /\ ToolFailed(order[1]))
            => (ret.failed = Range(order) /\ ret.succeeded = {}))
    /\ [](\A i, j \in 1..Len(order) :
            (i < j /\ j < idx /\ order[i] \in failed)
                => (order[j] \in failed /\ order[j] \notin invoked))
    /\ [][failed \subseteq failed']_vars

\* C4: a package whose build tool ended with a non-zero or abnormal exit
\* status is in the failed set, is not reported as succeeded, and the run
\* was not aborted by it.
C4_NonZeroExitFails ==
    \A p \in Range(order) :
        ToolFailed(p) =>
            /\ p \in failed
            /\ (pc = "returned" /\ ret.shape = "tuple") => p \notin ret.succeeded

\* C5: a run interrupted at the k-th package invokes the tool for no later
\* package, does not add the interrupted package to the failed set, and
\* returns a report of the same shape as a completed run: succeeded names,
\* failed names and the per-package stats.
C5_InterruptReturnsReport ==
    (pc = "returned" /\ idx <= Len(order)) =>
        /\ \A j \in (idx + 1)..Len(order) : order[j] \notin invoked
        /\ order[idx] \notin failed
        /\ ret.shape = "tuple"

(***************************************************************************)
(* Properties of coalesce                                                  *)
(***************************************************************************)
NoDup(s) == \A i, j \in DOMAIN s : i # j => s[i] # s[j]

\* the keys and closure members of a closures mapping
InputNames(items) ==
    UNION {{items[i][1]} \cup Range(items[i][2]) : i \in DOMAIN items}

\* how many names an output mapping writes: its keys and its list members
RECURSIVE Occurrences(_, _)
Occurrences(co, ks) ==
    IF ks = {} THEN 0
    ELSE LET k == CHOOSE x \in ks : TRUE
         IN  1 + Len(co[k]) + Occurrences(co, ks \ {k})

\* C2: the output of coalesce is a set partition of the input names: keys and
\* lists together hold exactly the input's keys and closure members, and no
\* name is written twice anywhere in the output.
C2_CoalesceIsPartition ==
    pc = "coalesced" =>
        /\ DOMAIN coalesced \cup UNION {Range(coalesced[k]) : k \in DOMAIN coalesced}
               = InputNames(hi_level_builds)
        /\ Occurrences(coalesced, DOMAIN coalesced)
               = Cardinality(InputNames(hi_level_builds))

AscendingBySize(items) ==
    \A i, j \in DOMAIN items : i < j => Len(items[i][2]) <= Len(items[j][2])

\* A round of the loop whose batch reaches targetnum writes the batch under
\* the round's key K, and under K only: K's list holds every other key and
\* every closure member of the batch, without K and without duplicates.
FlushWritesBatch ==
    (pc = "coalesce_loop" /\ ci <= Len(sortedItems)) =>
        LET K == sortedItems[ci][1]
            batch == Append(group, sortedItems[ci][2] \o <<K>>)
        IN  SumLen(batch) >= targetnum =>
              /\ DOMAIN coalesced' = DOMAIN coalesced \cup {K}
              /\ Range(coalesced'[K])
                    = UNION {Range(batch[i]) : i \in DOMAIN batch} \ {K}
              /\ NoDup(coalesced'[K])
              /\ \A k \in DOMAIN coalesced : k # K => coalesced'[k] = coalesced[k]
              /\ group' = <<>>

\* the keys are taken in ascending closure size
KeysAscending ==
    pc \in {"coalesce_loop", "coalesced"} =>
        /\ AscendingBySize(sortedItems)
        /\ Range(sortedItems) = Range(hi_level_builds)
        /\ Len(sortedItems) = Len(hi_level_builds)

IsScenario ==
    /\ hi_level_builds \in DictOrders(ScenarioItems)
    /\ targetnum = 5

\* C10 as the spec states it: batches are written under the key that reaches
\* targetnum, and coalesce({"A": ["a1","a2"], "B": ["b1"]}, 5) returns
\* {"A": ["a1","a2","b1","B"]}, the list in that order.
C10_ScenarioAsStated ==
    /\ [][FlushWritesBatch]_vars
    /\ [](KeysAscending)
    /\ []((pc = "coalesced" /\ IsScenario) =>
            (DOMAIN coalesced = {"A"}
             /\ coalesced["A"] = <<"a1", "a2", "b1", "B">>))

\* C10, amended: batches are written under the key that reaches targetnum,
\* and coalesce({"A": ["a1","a2"], "B": ["b1"]}, 5) returns
\* {"A": ["b1","B","a1","a2"]}: B's entry, the smaller one, is merged first.
C10_FlushUnderLastKey ==
    /\ [][FlushWritesBatch]_vars
    /\ [](KeysAscending)
    /\ []((pc = "coalesced" /\ IsScenario) =>
            (DOMAIN coalesced = {"A"}
             /\ coalesced["A"] = <<"b1", "B", "a1", "a2">>))

\* C10 witness: the scenario has run to its end, its batch of two entries
\* written under A
C10_Witness ==
    /\ pc = "coalesced"
    /\ IsScenario
    /\ "A" \in DOMAIN coalesced
    /\ Len(coalesced["A"]) = 4

(***************************************************************************)
(* Properties of build_order                                               *)
(***************************************************************************)
\* E has a cycle all of whose nodes are in S
HasCycleWithin(E, S) ==
    \E C \in SUBSET S :
        /\ C # {}
        /\ \A n \in C : \E m \in C : <<n, m>> \in E

Acyclic(E) == ~HasCycleWithin(E, Nodes)

\* every edge package -> dependency of E between two members of o has the
\* dependency at the earlier index
DepsFirst(E, o) ==
    \A e \in E :
        (e[1] \in Range(o) /\ e[2] \in Range(o))
            => IndexOf(o, e[2]) < IndexOf(o, e[1])

\* C1: for an acyclic graph, the order build_order returns, and the order
\* make_deps keeps after dropping the nodes without metadata, has every
\* dependency strictly before the package that requires it, for every edge of
\* the input graph whose endpoints are both in the order.
C1_DependenciesFirst ==
    (pc \in {"planned", "filtered"} /\ Acyclic(graph)) => DepsFirst(graph, order)

\* C6: when the input graph has a cycle whose nodes all belong to the planned
\* subgraph's node set, build_order returns no order.
C6_CycleNeverOrdered ==
    HasCycleWithin(graph, tmp_nodes) => pc \notin {"planned", "filtered"}

\* The walks of the graph that start in T and follow at most d edges.
WalksFrom(E, T, d) ==
    {w \in UNION {[1..n -> Nodes] : n \in 1..(d + 1)} :
        /\ w[1] \in T
        /\ \A i \in 1..(Len(w) - 1) : <<w[i], w[i + 1]>> \in E}

\* the nodes reachable from T by following at most d edges
ReachWithin(E, T, d) == {w[Len(w)] : w \in WalksFrom(E, T, d)}

\* C7: for a target set T and depth d the returned subgraph's node set is
\* exactly the nodes reachable from T along at most d edges; it holds every
\* graph edge between two targets and every graph edge leaving a node at
\* distance less than d from T; and the input graph is left as it was.
C7_SubgraphIsDepthBoundedReach ==
    (pc \in {"planned", "filtered"} /\ packages # None) =>
        LET T == packages[1]
        IN  /\ tmp_nodes = ReachWithin(graph0, T, level)
            /\ InducedEdges(graph0, T) \subseteq tmp_edges
            /\ level > 0 =>
                 EdgesFrom(graph0, ReachWithin(graph0, T, level - 1))
                     \subseteq tmp_edges
            /\ graph = graph0

\* C7 witness: a plan of depth 2 has returned a subgraph that holds a node
\* two edges away from the targets.
C7_Witness ==
    /\ pc = "planned"
    /\ packages # None
    /\ level = 2
    /\ \E n \in tmp_nodes : n \notin ReachWithin(graph0, packages[1], 1)

(***************************************************************************)
(* git_changed_files (lines 129-136), construct_graph (lines 138-169) and  *)
(* dirty (lines 171-175)                                                   *)
(*                                                                         *)
(* A path and a directory name are sequences of one-character strings, so  *)
(* that iterating over a string and os.path.dirname do what they do in     *)
(* Python. The recipe directories are named by the one-character names of  *)
(* Nodes, and a recipe's package name is its directory's name.             *)
(***************************************************************************)
\* the files a revision may touch: the recipe file of a directory, or a file
\* at the top of the repository
RepoPaths == {<<n, "/", "m">> : n \in Nodes} \cup {<<"r">>}

\* the stdout of git diff-tree --name-only: one path per line, as one string
RECURSIVE GitOutput(_)
GitOutput(paths) ==
    IF paths = <<>> THEN <<>>
    ELSE paths[1] \o <<"\n">> \o GitOutput(Tail(paths))

\* the last index of "/" in p, 0 when there is none
LastSlash(p) ==
    IF \E i \in DOMAIN p : p[i] = "/"
    THEN CHOOSE i \in DOMAIN p : p[i] = "/" /\ \A j \in DOMAIN p : p[j] = "/" => j <= i
    ELSE 0

RECURSIVE RStripSlash(_)
RStripSlash(p) ==
    IF p # <<>> /\ p[Len(p)] = "/" THEN RStripSlash(SubSeq(p, 1, Len(p) - 1))
    ELSE p

\* os.path.dirname (posixpath): the part up to the last slash, without its
\* trailing slashes unless it consists of slashes only
dirname(p) ==
    LET head == SubSeq(p, 1, LastSlash(p))
    IN  IF head # <<>> /\ \E i \in DOMAIN head : head[i] # "/"
        THEN RStripSlash(head)
        ELSE head

\* lines 133-136: files is the output string, and "for f in files" runs over
\* its characters
git_changed_files(paths) ==
    LET files == GitOutput(paths)
    IN  {dirname(<<files[i]>>) : i \in DOMAIN files}

\* the attributes a Python str has, as far as getattr is concerned here
StrAttributes == {"strip", "split", "startswith"}

\* getattr(n, name, default) of a node key n, which is a str
getattr_str(n, name, default) ==
    IF name \in StrAttributes THEN "method" ELSE default

\* line 175: {n for n in graph.node if getattr(n, 'dirty', False) == True};
\* n is the node's key, its attributes (attrs) are not consulted
dirty_of(nodes, attrs) ==
    {n \in nodes : getattr_str(n, "dirty", FALSE) = TRUE}

InitDirty ==
    /\ pc = "construct_graph"
    /\ InitOther({"d"})
    /\ \E R \in SUBSET Nodes : recipes \in [R -> SUBSET Nodes]
    /\ \E P \in SUBSET RepoPaths : git_paths \in Perms(P)
    /\ changed_recipes = {}
    /\ gnodes = {}
    /\ node_dirty = <<>>
    /\ dirty_result = None

\* construct_graph, line 153
construct_graph_changed ==
    /\ pc = "construct_graph"
    /\ changed_recipes' = git_changed_files(git_paths)
    /\ pc' = "recipes"
    /\ UNCHANGED <<gvars, svars, rvars, ovars, recipes, git_paths, gnodes,
                   node_dirty, dirty_result>>

\* construct_graph, lines 155-169: a node with meta and the dirty flag per
\* recipe that parses, an edge (and a bare node) per build requirement
construct_graph ==
    /\ pc = "recipes"
    /\ meta' = DOMAIN recipes
    /\ node_dirty' = [rd \in DOMAIN recipes |-> <<rd>> \in changed_recipes]
    /\ graph' = {e \in Nodes \X Nodes : e[1] \in DOMAIN recipes /\ e[2] \in recipes[e[1]]}
    /\ gnodes' = DOMAIN recipes \cup UNION {recipes[rd] : rd \in DOMAIN recipes}
    /\ graph0' = graph'
    /\ pc' = "graph"
    /\ UNCHANGED <<packages, level, tmp_nodes, tmp_edges, seen, explored,
                   fringe, order, svars, rvars, ovars, recipes, git_paths,
                   changed_recipes, dirty_result>>

\* dirty(graph), lines 171-175
dirty ==
    /\ pc = "graph"
    /\ dirty_result' = <<dirty_of(gnodes, node_dirty)>>
    /\ pc' = "dirty_done"
    /\ UNCHANGED <<gvars, svars, rvars, ovars, recipes, git_paths,
                   changed_recipes, gnodes, node_dirty>>

NextDirty ==
    \/ construct_graph_changed
    \/ construct_graph
    \/ dirty

SpecDirty == InitDirty /\ [][NextDirty]_vars

(***************************************************************************)
(* Properties of dirty                                                     *)
(***************************************************************************)
\* the nodes whose dirty attribute is true
Flagged == {n \in gnodes : n \in DOMAIN node_dirty /\ node_dirty[n] = TRUE}

\* the directories of the files the revision touched
ChangedDirs == {dirname(git_paths[i]) : i \in DOMAIN git_paths}

\* C11: for a graph produced by construct_graph, dirty(graph) is exactly the
\* set of nodes whose dirty flag is true, which are the packages whose recipe
\* directory is in the changed-file set; it is non-empty whenever some node is
\* flagged dirty.
C11_DirtyReturnsFlagged ==
    pc = "dirty_done" =>
        /\ dirty_result[1] = Flagged
        /\ Flagged = {rd \in DOMAIN recipes : <<rd>> \in ChangedDirs}
        /\ Flagged # {} => dirty_result[1] # {}

====
